---- MODULE Spec2Model ----
(***************************************************************************)
(* Model of anemoi.datasets.compute.perturbations: the recentering of      *)
(* ensemble members around a center forecast (perturbations) and the       *)
(* structural comparison of a center and a member field                   *)
(* (check_compatible).                                                     *)
(*                                                                         *)
(* A field is a record of its metadata, its Mars key dictionary (as_mars,  *)
(* a function from key names to values) and its numeric grid (to_numpy, a  *)
(* sequence of integers, one per grid point).  Numeric results are exact   *)
(* rationals [num, den]; den = 0 stands for numpy's nan (mean of nothing). *)
(***************************************************************************)
EXTENDS Integers, Sequences, FiniteSets, TLC

VARIABLES
    members_arg,    \* the `members` argument as passed by the caller
    center_arg,     \* the `center` argument as passed by the caller
    members,        \* local `members` (rebound by order_by)
    center,         \* local `center` (rebound by order_by)
    clip_variables, \* argument
    output,         \* argument: None or a path
    pc,             \* position in perturbations
    number_list,    \* members.unique_values("number")["number"]
    n_numbers,
    tmp,            \* the temporary file, None when not created
    path,
    out,            \* the sink: [state, written]
    seen,
    i,
    j,
    param,
    center_np,
    members_np,
    mean_np,
    error,          \* the exception that ended the run, None when none
    result,         \* the returned value, None while running
    calls,          \* how often each collaborator was called so far
    cc              \* the check_compatible call of CompatSpec

vars == <<members_arg, center_arg, members, center, clip_variables, output, pc,
          number_list, n_numbers, tmp, path, out, seen, i, j, param,
          center_np, members_np, mean_np, error, result, calls, cc>>

-----------------------------------------------------------------------------
(* Bounds of the model *)

MaxMembers == 4
MaxCenter == 2

-----------------------------------------------------------------------------
(* Program constants *)

CLIP_VARIABLES == {"q", "cp", "lsp", "tp", "sf", "swl4", "swl3", "swl2", "swl1"}

SKIP == {"class", "stream", "type", "number", "expver", "_leg_number", "anoffset"}

keys == <<"param", "level", "valid_datetime", "date", "time", "step", "number">>

\* Python's None, for the string-valued places (output, tmp, error, result)
None == "None"

\* Python's None as the value of the member-number key
NoneNumber == -1

-----------------------------------------------------------------------------
(* Exact rational arithmetic standing for numpy's float64 arrays *)

Rat(n) == [num |-> n, den |-> 1]

RSub(a, b) == [num |-> a.num * b.den - b.num * a.den, den |-> a.den * b.den]

RAdd(a, b) == [num |-> a.num * b.den + b.num * a.den, den |-> a.den * b.den]

\* np.maximum(x, 0) on one element
RMax0(a) == IF a.den > 0 /\ a.num < 0 THEN [num |-> 0, den |-> a.den] ELSE a

RECURSIVE SumInts(_)
SumInts(s) == IF s = <<>> THEN 0 ELSE Head(s) + SumInts(Tail(s))

-----------------------------------------------------------------------------
(* Fields *)

\* A member field: metadata, descriptors, as_mars() and to_numpy()
MemberField(p, level, number, stream, data) ==
    [param |-> p, level |-> level, valid_datetime |-> 2024010106,
     date |-> 20240101, time |-> 0, step |-> 6, number |-> number,
     mars_grid |-> "O96", mars_area |-> "global", shape |-> <<Len(data)>>,
     mars |-> [param |-> p, levelist |-> level, number |-> number, stream |-> stream],
     data |-> data]

\* A center field: no member dimension, so no "number" Mars key
CenterField(p, level, data) ==
    [param |-> p, level |-> level, valid_datetime |-> 2024010106,
     date |-> 20240101, time |-> 0, step |-> 6, number |-> 0,
     mars_grid |-> "O96", mars_area |-> "global", shape |-> <<Len(data)>>,
     mars |-> [param |-> p, levelist |-> level, stream |-> "oper"],
     data |-> data]

\* The member fields the inputs are drawn from: two parameter/level slots
\* ("t" at 850, "tp" at 0), two member numbers, and fields deviating in one
\* respect (stream, unset number, shape, valid time, Mars keys).
MemberFields ==
    << MemberField("t", 850, 2, "enfo", <<1, 0>>),
       MemberField("tp", 0, 1, "enfo", <<-2, 2>>),
       MemberField("t", 850, 1, "enfo", <<-2, 3>>),
       MemberField("tp", 0, 2, "enfo", <<1, 0>>),
       MemberField("t", 850, 1, "efov", <<0, 1>>),
       MemberField("tp", 0, 2, "efov", <<3, -1>>),
       MemberField("t", 850, NoneNumber, "enfo", <<0, 0>>),
       MemberField("tp", 0, 1, "enfo", <<5>>),
       [MemberField("t", 850, 1, "enfo", <<-2, 3>>) EXCEPT !.valid_datetime = 2024010112],
       [MemberField("t", 850, 1, "enfo", <<-2, 3>>) EXCEPT
            !.mars = [param |-> "t", number |-> 1, stream |-> "enfo"]] >>

CenterFields ==
    << CenterField("t", 850, <<0, 1>>),
       CenterField("tp", 0, <<1, 0>>) >>

\* The collections of at most max fields of U, each presented in one order
\* (descending position in U): order_by makes a run depend on the order of
\* its input only through ties.
Collections(U, max) ==
    UNION { { [k \in 1..n |-> U[s[k]]] :
                s \in { t \in [1..n -> 1..Len(U)] :
                          \A k \in 1..(n - 1) : t[k] >= t[k + 1] } } :
            n \in 0..max }

-----------------------------------------------------------------------------
(* Field collection collaborator: unique_values, order_by *)

\* Python's order on the parameter names in use
StrRank(s) == CASE s = "q" -> 1 [] s = "t" -> 2 [] s = "tp" -> 3 [] OTHER -> 4

\* The tuple order_by(*keys) compares
SortKey(f) == [k \in 1..Len(keys) |->
                 IF keys[k] = "param" THEN StrRank(f.param) ELSE f[keys[k]]]

LexLess(a, b) ==
    \E k \in DOMAIN a : a[k] < b[k] /\ \A m \in 1..(k - 1) : a[m] = b[m]

RECURSIVE Arrangements(_, _)
Arrangements(fs, S) ==
    IF S = {} THEN { <<>> }
    ELSE UNION { { <<fs[m]>> \o t : t \in Arrangements(fs, S \ {m}) } :
                 m \in { m \in S : \A k \in S :
                           ~LexLess(SortKey(fs[k]), SortKey(fs[m])) } }

\* order_by(*keys): the collections holding the same fields in ascending key
\* order; fields of equal key come in any order
OrderBy(fs) == Arrangements(fs, DOMAIN fs)

\* unique_values("number")["number"]
UniqueNumbers(fs) == { fs[k].number : k \in DOMAIN fs }

-----------------------------------------------------------------------------
(* Exceptions and results *)

\* An exception: its type, the statement that raised it, its arguments
NoError == [type |-> None, at |-> None]

AssertionError(at, args) == [type |-> "AssertionError", at |-> at, args |-> args]

KeyError(k) == [type |-> "KeyError", at |-> "mars_key", args |-> <<k>>]

ValueError(at, msg) == [type |-> "ValueError", at |-> at, args |-> msg]

Ok == [type |-> "ok", at |-> None]

-----------------------------------------------------------------------------
(* check_compatible *)

\* FailingKeys without the test `if k in SKIP: continue`
FailingKeysNoSkip(cm, em) ==
    { k \in DOMAIN cm \cup DOMAIN em :
        k \notin DOMAIN cm \/ k \notin DOMAIN em \/ cm[k] # em[k] }

\* The keys whose comparison fails in the loop over the union of the key sets:
\* a key of one dictionary only fails the lookup, a key of both fails the
\* assertion when the values differ
FailingKeys(cm, em) ==
    { k \in (DOMAIN cm \cup DOMAIN em) \ SKIP :
        k \notin DOMAIN cm \/ k \notin DOMAIN em \/ cm[k] # em[k] }

KeyFailure(k, cm, em) ==
    IF k \notin DOMAIN cm \/ k \notin DOMAIN em
    THEN KeyError(k)
    ELSE AssertionError("mars_key", <<k, cm[k], em[k]>>)

\* check_compatible without the assertion on the shapes
check_compatible_no_shape(f1, f2, cm, em) ==
    IF f1.mars_grid # f2.mars_grid
    THEN { AssertionError("mars_grid", <<f1.mars_grid, f2.mars_grid>>) }
    ELSE IF f1.mars_area # f2.mars_area
    THEN { AssertionError("mars_area", <<f1.mars_area, f2.mars_area>>) }
    ELSE IF f1.valid_datetime # f2.valid_datetime
    THEN { AssertionError("valid_datetime", <<f1.valid_datetime, f2.valid_datetime>>) }
    ELSE IF FailingKeys(cm, em) = {}
    THEN { Ok }
    ELSE { KeyFailure(k, cm, em) : k \in FailingKeys(cm, em) }

\* The outcomes of check_compatible(f1, f2, center_field_as_mars,
\* ensemble_field_as_mars): Ok, or the exception raised.  The loop visits the
\* keys in the iteration order of a Python set, so that any failing key may be
\* the first one met.
check_compatible(f1, f2, cm, em) ==
    IF f1.mars_grid # f2.mars_grid
    THEN { AssertionError("mars_grid", <<f1.mars_grid, f2.mars_grid>>) }
    ELSE IF f1.mars_area # f2.mars_area
    THEN { AssertionError("mars_area", <<f1.mars_area, f2.mars_area>>) }
    ELSE IF f1.shape # f2.shape
    THEN { AssertionError("shape", <<f1.shape, f2.shape>>) }
    ELSE IF f1.valid_datetime # f2.valid_datetime
    THEN { AssertionError("valid_datetime", <<f1.valid_datetime, f2.valid_datetime>>) }
    ELSE IF FailingKeys(cm, em) = {}
    THEN { Ok }
    ELSE { KeyFailure(k, cm, em) : k \in FailingKeys(cm, em) }

-----------------------------------------------------------------------------
(* Numeric steps of perturbations *)

\* np.zeros((n_numbers, *center_np.shape))
Zeros(n, c) == [k \in 1..n |-> [g \in DOMAIN c |-> 0]]

\* Mean dividing by one more than the number of members
MeanOffByOne(E, c) ==
    [g \in DOMAIN c |-> [num |-> SumInts([k \in DOMAIN E |-> E[k][g]]),
                         den |-> Len(E) + 1]]

\* members_np.mean(axis=0); nan (den = 0) at every point when n_numbers = 0
Mean(E, c) ==
    [g \in DOMAIN c |-> [num |-> SumInts([k \in DOMAIN E |-> E[k][g]]),
                         den |-> Len(E)]]

\* x = c - m + e
Recenter(c, m, e) ==
    [g \in DOMAIN c |-> RAdd(RSub(Rat(c[g]), m[g]), Rat(e[g]))]

\* np.maximum(x, 0)
Maximum0(x) == [g \in DOMAIN x |-> RMax0(x[g])]

\* Perturbed without the clipping step
PerturbedUnclipped(p, clip, c, m, e) == Recenter(c, m, e)

\* the value handed to out.write for parameter p
Perturbed(p, clip, c, m, e) ==
    IF p \in clip THEN Maximum0(Recenter(c, m, e)) ELSE Recenter(c, m, e)

-----------------------------------------------------------------------------
(* perturbations: initial state *)

NoCalls ==
    [unique_values |-> 0, order_by |-> 0, temp_file |-> 0, new_grib_output |-> 0,
     to_numpy |-> 0, check_compatible |-> 0, mean |-> 0, write |-> 0, close |-> 0,
     load_source |-> 0]

Called(c, name) == [c EXCEPT ![name] = @ + 1]

NoSink == [state |-> "none", written |-> <<>>]

NoResult == [kind |-> None]

CompatIdle == [state |-> "idle"]

\* The locals of perturbations before its first statement
Entry ==
    /\ members = members_arg
    /\ center = center_arg
    /\ number_list = {}
    /\ n_numbers = 0
    /\ tmp = None
    /\ path = None
    /\ out = NoSink
    /\ seen = {}
    /\ i = 0
    /\ j = 0
    /\ param = None
    /\ center_np = <<>>
    /\ members_np = <<>>
    /\ mean_np = <<>>
    /\ error = NoError
    /\ result = NoResult
    /\ calls = NoCalls

\* clip_variables as passed: the default, or a caller's own tuple
ClipChoices == { CLIP_VARIABLES, {"t"} }

Init ==
    /\ members_arg \in Collections(MemberFields, MaxMembers)
    /\ center_arg \in Collections(CenterFields, MaxCenter)
    /\ clip_variables \in ClipChoices
    /\ output \in {None, "out.grib"}
    /\ pc = "start"
    /\ Entry
    /\ cc = CompatIdle

args == <<members_arg, center_arg, clip_variables, output>>

-----------------------------------------------------------------------------
(* perturbations: one action per step of the function *)

\* NumberListOk without the assertion
NumberListUnchecked(nl) == TRUE

\* assert None not in number_list
NumberListOk(nl) == NoneNumber \notin nl

\* CardinalityOk without the test
CardinalityUnchecked(nc, n, nm) == TRUE

\* the test guarding the count-mismatch error (negated)
CardinalityOk(nc, n, nm) == nc * n = nm

\* NeedsTemp creating the temporary file whatever output is
NeedsTempAlways(o) == TRUE

\* output is None: a temporary file is needed
NeedsTemp(o) == o = None

\* BlockIndex walking each block backwards
BlockIndexReversed(ii, n, jj) == ii * n + (n - jj)

\* members[i * n_numbers + j], as a position counted from 1
BlockIndex(ii, n, jj) == ii * n + jj + 1

\* SeenCheckOk without the assertion
SeenUnchecked(em, s) == TRUE

\* assert ensemble_field_as_mars not in seen
SeenCheckOk(em, s) == em \notin s

\* members_np[j] = a: numpy broadcasts a one-point array over the row, and
\* refuses any other length than the row's
Broadcastable(a, c) == Len(a) = Len(c) \/ Len(a) = 1

Broadcast(a, c) == IF Len(a) = Len(c) THEN a ELSE [g \in DOMAIN c |-> a[1]]

\* lines 66-69
UniqueValues ==
    /\ pc = "start"
    /\ number_list' = UniqueNumbers(members)
    /\ n_numbers' = Cardinality(UniqueNumbers(members))
    /\ calls' = Called(calls, "unique_values")
    /\ IF NumberListOk(UniqueNumbers(members))
       THEN pc' = "order" /\ error' = error
       ELSE pc' = "failed" /\ error' = AssertionError("number_list", <<>>)
    /\ UNCHANGED <<args, members, center, tmp, path, out, seen, i, j, param,
                   center_np, members_np, mean_np, result, cc>>

\* lines 71-74
Order ==
    /\ pc = "order"
    /\ members' \in OrderBy(members)
    /\ center' \in OrderBy(center)
    /\ calls' = Called(Called(calls, "order_by"), "order_by")
    /\ pc' = "cardinality"
    /\ UNCHANGED <<args, number_list, n_numbers, tmp, path, out, seen, i, j,
                   param, center_np, members_np, mean_np, error, result, cc>>

\* lines 76-82
Cardinality_check ==
    /\ pc = "cardinality"
    /\ IF CardinalityOk(Len(center), n_numbers, Len(members))
       THEN pc' = "open" /\ error' = error
       ELSE pc' = "failed"
            /\ error' = ValueError("count", <<Len(center), n_numbers, Len(members)>>)
    /\ UNCHANGED <<args, members, center, number_list, n_numbers, tmp, path, out,
                   seen, i, j, param, center_np, members_np, mean_np, result,
                   calls, cc>>

\* lines 84-94
OpenOutput ==
    /\ pc = "open"
    /\ IF NeedsTemp(output)
       THEN /\ tmp' = "tmpfile"
            /\ path' = "tmpfile.path"
            /\ calls' = Called(Called(calls, "temp_file"), "new_grib_output")
       ELSE /\ tmp' = None
            /\ path' = output
            /\ calls' = Called(calls, "new_grib_output")
    /\ out' = [state |-> "open", written |-> <<>>]
    /\ seen' = {}
    /\ i' = 0
    /\ pc' = "center"
    /\ UNCHANGED <<args, members, center, number_list, n_numbers, j, param,
                   center_np, members_np, mean_np, error, result, cc>>

\* lines 96-104: the head of the loop over center, and the loads of one pass
LoadCenter ==
    /\ pc = "center"
    /\ i < Len(center)
    /\ param' = center[i + 1].param
    /\ center_np' = center[i + 1].data
    /\ members_np' = Zeros(n_numbers, center[i + 1].data)
    /\ calls' = Called(calls, "to_numpy")
    /\ j' = 0
    /\ pc' = IF n_numbers > 0 THEN "check" ELSE "mean"
    /\ UNCHANGED <<args, members, center, number_list, n_numbers, tmp, path, out,
                   seen, i, mean_np, error, result, cc>>

\* lines 106-114: one pass of the first inner loop
CheckMember ==
    /\ pc = "check"
    /\ j < n_numbers
    /\ LET center_field == center[i + 1]
           ensemble_field == members[BlockIndex(i, n_numbers, j)]
       IN \E o \in check_compatible(center_field, ensemble_field,
                                    center_field.mars, ensemble_field.mars) :
            IF o.type # "ok"
            THEN /\ pc' = "failed"
                 /\ error' = o
                 /\ calls' = Called(calls, "check_compatible")
                 /\ UNCHANGED <<members_np, seen, j>>
            ELSE IF ~Broadcastable(ensemble_field.data, center_np)
            THEN /\ pc' = "failed"
                 /\ error' = ValueError("broadcast",
                                      <<Len(ensemble_field.data), Len(center_np)>>)
                 /\ calls' = Called(Called(calls, "check_compatible"), "to_numpy")
                 /\ UNCHANGED <<members_np, seen, j>>
            ELSE /\ members_np' = [members_np EXCEPT
                                     ![j + 1] = Broadcast(ensemble_field.data, center_np)]
                 /\ calls' = Called(Called(calls, "check_compatible"), "to_numpy")
                 /\ IF ~SeenCheckOk(ensemble_field.mars, seen)
                    THEN /\ pc' = "failed"
                         /\ error' = AssertionError("seen", ensemble_field.mars)
                         /\ UNCHANGED <<seen, j>>
                    ELSE /\ seen' = seen \cup {ensemble_field.mars}
                         /\ j' = j + 1
                         /\ pc' = IF j + 1 < n_numbers THEN "check" ELSE "mean"
                         /\ error' = error
    /\ UNCHANGED <<args, members, center, number_list, n_numbers, tmp, path, out,
                   i, param, center_np, mean_np, result, cc>>

\* line 123, and the head of the second inner loop
ComputeMean ==
    /\ pc = "mean"
    /\ mean_np' = Mean(members_np, center_np)
    /\ calls' = Called(calls, "mean")
    /\ j' = 0
    /\ IF n_numbers > 0
       THEN pc' = "write" /\ i' = i
       ELSE pc' = "center" /\ i' = i + 1
    /\ UNCHANGED <<args, members, center, number_list, n_numbers, tmp, path, out,
                   seen, param, center_np, members_np, error, result, cc>>

\* lines 125-142: one pass of the second inner loop
WriteMember ==
    /\ pc = "write"
    /\ j < n_numbers
    /\ LET template == members[BlockIndex(i, n_numbers, j)]
           e == members_np[j + 1]
           m == mean_np
           c == center_np
           x == Perturbed(param, clip_variables, c, m, e)
       IN IF ~(Len(e) = Len(c) /\ Len(c) = Len(m))
          THEN /\ pc' = "failed"
               /\ error' = AssertionError("shapes", <<Len(e), Len(c), Len(m)>>)
               /\ UNCHANGED <<out, calls, i, j>>
          ELSE IF Len(x) # Len(e)
          THEN /\ pc' = "failed"
               /\ error' = AssertionError("x_shape", <<Len(x), Len(e)>>)
               /\ UNCHANGED <<out, calls, i, j>>
          ELSE /\ out' = [out EXCEPT !.written =
                              Append(@, [x |-> x, template |-> template])]
               /\ calls' = Called(calls, "write")
               /\ error' = error
               /\ IF j + 1 < n_numbers
                  THEN pc' = "write" /\ j' = j + 1 /\ i' = i
                  ELSE pc' = "center" /\ j' = j + 1 /\ i' = i + 1
    /\ UNCHANGED <<args, members, center, number_list, n_numbers, tmp, path, seen,
                   param, center_np, members_np, mean_np, result, cc>>

\* lines 144-149: after the loop over center
Finish ==
    /\ pc = "center"
    /\ i >= Len(center)
    /\ IF Cardinality(seen) # Len(members)
       THEN /\ pc' = "failed"
            /\ error' = AssertionError("len_seen", <<Cardinality(seen), Len(members)>>)
            /\ UNCHANGED <<out, calls, result>>
       ELSE /\ out' = [out EXCEPT !.state = "closed"]
            /\ calls' = Called(calls, "close")
            /\ error' = error
            /\ IF output # None
               THEN pc' = "done" /\ result' = [kind |-> "path", path |-> path]
               ELSE pc' = "reopen" /\ result' = result
    /\ UNCHANGED <<args, members, center, number_list, n_numbers, tmp, path, seen,
                   i, j, param, center_np, members_np, mean_np, cc>>

\* lines 151-161: the written file read back
Reopen ==
    /\ pc = "reopen"
    /\ calls' = Called(calls, "load_source")
    /\ LET ds == [kind |-> "fieldset", len |-> Len(out.written), _tmp |-> tmp]
       IN IF ds.len # Len(members)
          THEN /\ pc' = "failed"
               /\ error' = AssertionError("len_ds", <<ds.len, Len(members)>>)
               /\ result' = result
          ELSE /\ pc' = "done"
               /\ error' = error
               /\ result' = ds
    /\ UNCHANGED <<args, members, center, number_list, n_numbers, tmp, path, out,
                   seen, i, j, param, center_np, members_np, mean_np, cc>>

Next ==
    \/ UniqueValues
    \/ Order
    \/ Cardinality_check
    \/ OpenOutput
    \/ LoadCenter
    \/ CheckMember
    \/ ComputeMean
    \/ WriteMember
    \/ Finish
    \/ Reopen

Spec == Init /\ [][Next]_vars

-----------------------------------------------------------------------------
(* check_compatible on its own: one call on arbitrary arguments *)

\* The descriptors check_compatible reads from a field
Descriptors ==
    [mars_grid : {"O96", "N320"}, mars_area : {"global", "europe"},
     shape : {<<2>>, <<1>>}, valid_datetime : {2024010106, 2024010112}]

\* Mars key dictionaries: "stream" is a skipped key, the others are compared
MarsDicts ==
    UNION { [K -> {1, 2}] : K \in SUBSET {"param", "levelist", "stream"} }

\* perturbations at rest
Idle ==
    /\ members_arg = <<>>
    /\ center_arg = <<>>
    /\ clip_variables = CLIP_VARIABLES
    /\ output = None
    /\ pc = "idle"
    /\ Entry

CompatInit ==
    /\ Idle
    /\ \E f2 \in Descriptors, cm \in MarsDicts, em \in MarsDicts :
         cc = [state |-> "call",
               f1 |-> [mars_grid |-> "O96", mars_area |-> "global",
                       shape |-> <<2>>, valid_datetime |-> 2024010106],
               f2 |-> f2, cm |-> cm, em |-> em, outcome |-> Ok]

CompatCall ==
    /\ cc.state = "call"
    /\ \E o \in check_compatible(cc.f1, cc.f2, cc.cm, cc.em) :
         cc' = [cc EXCEPT !.state = "returned", !.outcome = o]
    /\ UNCHANGED <<args, members, center, pc, number_list, n_numbers, tmp, path,
                   out, seen, i, j, param, center_np, members_np, mean_np, error,
                   result, calls>>

CompatNext == CompatCall

CompatSpec == CompatInit /\ [][CompatNext]_vars

-----------------------------------------------------------------------------
(* Vocabulary of the properties *)

\* equality and order of two numbers, neither of them nan
REq(a, b) == a.den # 0 /\ b.den # 0 /\ a.num * b.den = b.num * a.den

RLeq(a, b) == a.den > 0 /\ b.den > 0 /\ a.num * b.den <= b.num * a.den

RECURSIVE RSum(_)
RSum(s) == IF s = <<>> THEN Rat(0) ELSE RAdd(Head(s), RSum(Tail(s)))

\* some member field has its number unset
HasNoneNumber == \E k \in DOMAIN members_arg : members_arg[k].number = NoneNumber

\* len(center) * n_numbers != len(members), on the arguments
CountMismatch ==
    Len(center_arg) * Cardinality({ members_arg[k].number : k \in DOMAIN members_arg })
        # Len(members_arg)

\* two member fields have identical Mars key sets
HasDuplicate ==
    \E k, l \in DOMAIN members_arg :
        k # l /\ members_arg[k].mars = members_arg[l].mars

Occurrences(f, s) == Cardinality({ k \in DOMAIN s : s[k] = f })

\* s and t hold the same fields, each as often
SameFields(s, t) ==
    /\ Len(s) = Len(t)
    /\ \A k \in DOMAIN s : Occurrences(s[k], s) = Occurrences(s[k], t)

\* (param, level, valid_datetime, date, time, step, number) of a field
KeyTuple(f) ==
    <<StrRank(f.param), f.level, f.valid_datetime, f.date, f.time, f.step, f.number>>

\* s is in ascending order of KeyTuple
IsSorted(s) ==
    \A k, l \in DOMAIN s : k < l => ~LexLess(KeyTuple(s[l]), KeyTuple(s[k]))

\* the positions (from 1) in members of the block of center field b (from 0)
Block(b) == { b * n_numbers + k : k \in 1..n_numbers }

\* every field of block b has been written
BlockComplete(b) == n_numbers > 0 /\ Len(out.written) >= (b + 1) * n_numbers

\* the mean over the values written for block b at grid point g
WrittenMean(b, g) ==
    LET sum == RSum([k \in 1..n_numbers |-> out.written[b * n_numbers + k].x[g]])
    IN [num |-> sum.num, den |-> sum.den * n_numbers]

\* c - m + e at grid point g for the member at position k, from the inputs
Raw(k, g) ==
    LET b == (k - 1) \div n_numbers
    IN [num |-> center[b + 1].data[g] * n_numbers
                  - SumInts([l \in 1..n_numbers |-> members[b * n_numbers + l].data[g]])
                  + members[k].data[g] * n_numbers,
        den |-> n_numbers]

-----------------------------------------------------------------------------
(* C1 *)

\* C1: when perturbations completes, the sink has received exactly len(members)
\* writes and the k-th write has the k-th field of the sorted members as its
\* template, the sorted members being the argument's fields in ascending order
\* of (param, level, valid_datetime, date, time, step, number).
C1_WritesFollowSortedMembers ==
    pc = "done" =>
        /\ IsSorted(members)
        /\ SameFields(members, members_arg)
        /\ Len(out.written) = Len(members_arg)
        /\ calls.write = Len(members_arg)
        /\ \A k \in DOMAIN out.written : out.written[k].template = members[k]

C1_Witness ==
    /\ pc = "done"
    /\ Len(out.written) = 4
    /\ Len(center) = 2
    /\ members # members_arg

-----------------------------------------------------------------------------
(* C2 *)

-----------------------------------------------------------------------------
(* C3 *)

\* C3: every value written is max(c - m + e, 0), hence >= 0, at every grid point
\* when the center field's param is in clip_variables, and exactly c - m + e,
\* of either sign, when it is not.
C3_ClippingLaw ==
    \A k \in DOMAIN out.written :
        LET cf == center[(k - 1) \div n_numbers + 1]
            x == out.written[k].x
        IN /\ out.written[k].template = members[k]
           /\ DOMAIN x = DOMAIN cf.data
           /\ \A g \in DOMAIN x :
                IF cf.param \in clip_variables
                THEN /\ x[g].den > 0 /\ x[g].num >= 0
                     /\ REq(x[g], IF Raw(k, g).num < 0 THEN Rat(0) ELSE Raw(k, g))
                ELSE REq(x[g], Raw(k, g))

C3_Witness ==
    /\ \E k \in DOMAIN out.written :
         /\ center[(k - 1) \div n_numbers + 1].param \in clip_variables
         /\ \E g \in DOMAIN out.written[k].x :
              Raw(k, g).num < 0 /\ out.written[k].x[g].num = 0
    /\ \E k \in DOMAIN out.written :
         /\ center[(k - 1) \div n_numbers + 1].param \notin clip_variables
         /\ \E g \in DOMAIN out.written[k].x : out.written[k].x[g].num < 0

-----------------------------------------------------------------------------
(* C4 *)

\* two fields of identical Mars key sets stand in the block of one center
\* field (meaningful once both collections are ordered)
DuplicateInBlock ==
    /\ calls.order_by > 0
    /\ \E b \in 0..(Len(center) - 1) :
         \E k, l \in Block(b) \cap DOMAIN members :
            k # l /\ members[k].mars = members[l].mars

\* C4 as stated: when the members hold the same field twice (identical Mars key
\* sets) for one center field, the run fails with the assertion of the Seen Set
\* check, and the duplicate is not written.
C4_DuplicateRaisesSeenAssertion ==
    DuplicateInBlock =>
        /\ pc # "done"
        /\ pc = "failed" => error.type = "AssertionError" /\ error.at = "seen"
        /\ \A k, l \in DOMAIN out.written :
             k # l => out.written[k].template.mars # out.written[l].template.mars

\* C4 amended: when two member fields have identical Mars key sets, the run
\* never completes: it fails with the first error met, which is the unset
\* number assertion, the count-mismatch error, an error of check_compatible or
\* the assertion of the Seen Set check; no two fields of identical Mars key
\* sets are ever both written, and when the Seen Set assertion is raised
\* nothing has been written for the block of the duplicate.
C4_DuplicateNeverCompletes ==
    HasDuplicate =>
        /\ pc # "done"
        /\ pc = "failed" =>
             \/ error.type = "AssertionError" /\ error.at = "number_list"
             \/ error.type = "ValueError" /\ error.at = "count"
             \/ error.type = "AssertionError"
                  /\ error.at \in {"mars_grid", "mars_area", "shape",
                                   "valid_datetime", "mars_key"}
             \/ error.type = "KeyError" /\ error.at = "mars_key"
             \/ error.type = "AssertionError" /\ error.at = "seen"
        /\ (pc = "failed" /\ error.at = "seen") =>
             /\ Len(out.written) = i * n_numbers
             /\ error.args \in seen
             /\ members[BlockIndex(i, n_numbers, j)].mars = error.args
        /\ \A k, l \in DOMAIN out.written :
             k # l => out.written[k].template.mars # out.written[l].template.mars

C4_Witness ==
    /\ HasDuplicate
    /\ DuplicateInBlock
    /\ pc = "failed"
    /\ error.at = "seen"
    /\ Len(center) = 2

-----------------------------------------------------------------------------
(* C5 *)

\* some member field differs in shape from the center field of its block
\* (meaningful once both collections are ordered)
PositionalShapeMismatch ==
    \E k \in DOMAIN members :
        /\ n_numbers > 0
        /\ (k - 1) \div n_numbers + 1 \in DOMAIN center
        /\ members[k].shape # center[(k - 1) \div n_numbers + 1].shape

\* C5 as stated: a member field whose shape differs from its center field's
\* makes the run fail with the shape assertion, and when that assertion is
\* raised no mean has been computed and nothing has been written, for any block.
C5_ShapeErrorBeforeAnyComputation ==
    /\ (calls.order_by > 0 /\ PositionalShapeMismatch) => pc # "done"
    /\ (pc = "failed" /\ error.at = "shape") =>
         calls.mean = 0 /\ calls.write = 0 /\ Len(out.written) = 0

\* C5 amended: a member field whose shape differs from its center field's
\* never lets the run complete, and when the shape assertion is raised for a
\* field of block i no mean has been computed and nothing has been written for
\* block i or a later block, whereas each of the blocks 0..i-1 has had its mean
\* computed and its n_numbers fields written.
C5_ShapeErrorBeforeBlockComputation ==
    /\ (calls.order_by > 0 /\ PositionalShapeMismatch) => pc # "done"
    /\ (pc = "failed" /\ error.at = "shape") =>
         /\ error.type = "AssertionError"
         /\ error.args = <<center[i + 1].shape,
                           members[BlockIndex(i, n_numbers, j)].shape>>
         /\ calls.mean = i
         /\ calls.write = i * n_numbers
         /\ Len(out.written) = i * n_numbers

C5_Witness ==
    /\ pc = "failed"
    /\ error.at = "shape"
    /\ i = 1
    /\ Len(out.written) = n_numbers
    /\ n_numbers >= 1

-----------------------------------------------------------------------------
(* C6 *)

\* no temporary storage, no sink, no grid read and no write so far
NothingStarted ==
    /\ calls.temp_file = 0
    /\ calls.new_grib_output = 0
    /\ calls.write = 0
    /\ tmp = None
    /\ out = NoSink

\* C6 as stated: whenever len(center) * n_numbers != len(members) the run
\* fails with the count-mismatch ValueError, nothing having been created or
\* written; whenever the equality holds that error is not raised.
C6_CountMismatchRaisesValueError ==
    /\ CountMismatch =>
         /\ pc \in {"start", "order", "cardinality", "failed"}
         /\ NothingStarted
         /\ pc = "failed" => error.type = "ValueError" /\ error.at = "count"
    /\ ~CountMismatch => error.type # "ValueError"

\* C6 amended: whenever len(center) * n_numbers != len(members) the run fails
\* before temporary storage or the sink exists and before any write, with the
\* count-mismatch ValueError when no member number is unset and with the unset
\* number assertion otherwise; whenever the equality holds the ValueError is
\* not raised.
C6_CountMismatchFails ==
    /\ CountMismatch =>
         /\ pc \in {"start", "order", "cardinality", "failed"}
         /\ NothingStarted
         /\ pc = "failed" =>
              IF HasNoneNumber
              THEN error.type = "AssertionError" /\ error.at = "number_list"
              ELSE error.type = "ValueError" /\ error.at = "count"
    /\ ~CountMismatch => error.type # "ValueError"

C6_Witness ==
    /\ CountMismatch
    /\ ~HasNoneNumber
    /\ pc = "failed"
    /\ error.type = "ValueError"
    /\ Len(members_arg) >= 2

-----------------------------------------------------------------------------
(* C7 *)

\* C7: when a member field has its number unset the run fails with the
\* assertion on number_list before the collections are ordered, before the
\* count is checked, before temporary storage or the sink is created and before
\* any grid is read or written, also when the count does not match.
C7_UnsetNumberFailsFirst ==
    HasNoneNumber =>
        /\ pc \in {"start", "failed"}
        /\ pc = "failed" => error.type = "AssertionError" /\ error.at = "number_list"
        /\ calls.order_by = 0
        /\ members = members_arg /\ center = center_arg
        /\ calls.to_numpy = 0
        /\ calls.mean = 0
        /\ NothingStarted

C7_Witness ==
    /\ HasNoneNumber
    /\ CountMismatch
    /\ pc = "failed"
    /\ error.at = "number_list"
    /\ ~IsSorted(members_arg)

-----------------------------------------------------------------------------
(* C8 *)

\* the two fields agree on grid descriptor, area, shape and valid_datetime
DescriptorsEqual(f1, f2) ==
    /\ f1.mars_grid = f2.mars_grid
    /\ f1.mars_area = f2.mars_area
    /\ f1.shape = f2.shape
    /\ f1.valid_datetime = f2.valid_datetime

\* the pair of values of the first descriptor on which the fields disagree
FirstDescriptorMismatch(f1, f2) ==
    IF f1.mars_grid # f2.mars_grid THEN <<f1.mars_grid, f2.mars_grid>>
    ELSE IF f1.mars_area # f2.mars_area THEN <<f1.mars_area, f2.mars_area>>
    ELSE IF f1.shape # f2.shape THEN <<f1.shape, f2.shape>>
    ELSE <<f1.valid_datetime, f2.valid_datetime>>

Excluded == {"class", "stream", "type", "number", "expver", "_leg_number", "anoffset"}

\* C8 as stated: check_compatible returns normally exactly when the descriptors
\* are equal and every non-excluded key present in both key sets has equal
\* values, and fails with an assertion error carrying both values otherwise;
\* keys of one set only never make it fail.
C8_SharedKeysDecide ==
    cc.state = "returned" =>
        /\ cc.outcome.type = "ok" <=>
             /\ DescriptorsEqual(cc.f1, cc.f2)
             /\ \A k \in (DOMAIN cc.cm \cap DOMAIN cc.em) \ Excluded :
                  cc.cm[k] = cc.em[k]
        /\ cc.outcome.type # "ok" =>
             cc.outcome.type = "AssertionError" /\ Len(cc.outcome.args) >= 2

\* C8 amended: check_compatible returns normally exactly when the descriptors
\* are equal and every non-excluded key of either key set is present in both
\* with equal values.  Otherwise it fails: with an assertion error carrying
\* both values when a descriptor differs (the first of grid, area, shape,
\* valid_datetime that does) or when the key met is in both sets with
\* different values, and with a KeyError when the key met is in one set only.
\* Excluded keys never make it fail, whether they differ or are in one set only.
C8_AllKeysDecide ==
    cc.state = "returned" =>
        /\ cc.outcome.type = "ok" <=>
             /\ DescriptorsEqual(cc.f1, cc.f2)
             /\ \A k \in (DOMAIN cc.cm \cup DOMAIN cc.em) \ Excluded :
                  k \in DOMAIN cc.cm /\ k \in DOMAIN cc.em /\ cc.cm[k] = cc.em[k]
        /\ (cc.outcome.type # "ok" /\ ~DescriptorsEqual(cc.f1, cc.f2)) =>
             /\ cc.outcome.type = "AssertionError"
             /\ cc.outcome.args = FirstDescriptorMismatch(cc.f1, cc.f2)
        /\ (cc.outcome.type # "ok" /\ DescriptorsEqual(cc.f1, cc.f2)) =>
             \E k \in (DOMAIN cc.cm \cup DOMAIN cc.em) \ Excluded :
                IF k \in DOMAIN cc.cm /\ k \in DOMAIN cc.em
                THEN /\ cc.cm[k] # cc.em[k]
                     /\ cc.outcome.type = "AssertionError"
                     /\ cc.outcome.args = <<k, cc.cm[k], cc.em[k]>>
                ELSE /\ cc.outcome.type = "KeyError"
                     /\ cc.outcome.args = <<k>>

C8_Witness ==
    /\ cc.state = "returned"
    /\ cc.outcome.type = "ok"
    /\ DOMAIN cc.cm = {"param", "levelist", "stream"}
    /\ DOMAIN cc.em = {"param", "levelist"}
    /\ cc.cm["param"] = 2

-----------------------------------------------------------------------------
(* C9 *)

\* the sink is constructed at most once and only after both precondition
\* checks; it is closed at most once, after the last write, and never written
\* to afterwards (the count of writes stays len(members))
SinkDiscipline ==
    /\ calls.new_grib_output <= 1
    /\ calls.new_grib_output = 1 <=> out.state # "none"
    /\ calls.new_grib_output = 1 =>
         /\ ~HasNoneNumber /\ ~CountMismatch
         /\ pc \notin {"start", "order", "cardinality", "open"}
    /\ calls.close <= 1
    /\ calls.close = 1 <=> out.state = "closed"
    /\ out.state = "closed" =>
         /\ pc \in {"reopen", "done", "failed"}
         /\ calls.write = Len(members)
         /\ Len(out.written) = Len(members)
    /\ pc = "done" => calls.close = 1

\* what a successful run returns
ReturnValue ==
    pc = "done" =>
        IF output # None
        THEN /\ result.kind = "path" /\ result.path = output
             /\ calls.temp_file = 0 /\ tmp = None
        ELSE /\ result.kind = "fieldset"
             /\ result.len = Len(members_arg)
             /\ result._tmp = tmp /\ tmp # None
             /\ calls.temp_file = 1

\* C9 as stated: in every run temporary storage is created if and only if
\* output is None; the sink is constructed once after both precondition
\* checks, closed exactly once on success after the last write and never
\* written to afterwards; a successful run returns the path given, or a
\* handle of length len(members) holding the temporary storage.
C9_TemporaryIffOutputNone ==
    /\ pc \in {"done", "failed"} => (calls.temp_file = 1 <=> output = None)
    /\ SinkDiscipline
    /\ ReturnValue

\* C9 amended: temporary storage is created if and only if output is None and
\* the run passes both precondition checks (it is created along with the
\* sink); the rest as stated.
C9_TemporaryIffOutputNoneAndSink ==
    /\ calls.temp_file <= 1
    /\ calls.temp_file = 1 <=> (output = None /\ calls.new_grib_output = 1)
    /\ calls.temp_file = 1 <=> tmp # None
    /\ SinkDiscipline
    /\ ReturnValue

C9_Witness ==
    /\ pc = "done"
    /\ output = None
    /\ result.kind = "fieldset"
    /\ result.len = 4
    /\ calls.close = 1

-----------------------------------------------------------------------------
(* C10 *)

\* C10: when perturbations completes, the block of every center field holds
\* each of the n_numbers member numbers exactly once.
C10_BlocksCoverNumbers ==
    pc = "done" =>
        \A b \in 0..(Len(center) - 1) :
            { members[k].number : k \in Block(b) } = number_list

====
